---- MODULE Spec2Model ----
(***************************************************************************)
(* A model of the rusty_6502 emulator core (src/src/main.rs): the Memory   *)
(* array, the CPU register file, reset, the fetch/read/write primitives    *)
(* and the execute loop with its four instructions and the fallback arm.   *)
(*                                                                         *)
(* Integer widths are kept: pc and sp are u16, a, x, y, ps and the cycle   *)
(* budget are u8.  Rust's `+`, `-`, `+=`, `-=` on these types panic on     *)
(* overflow when the build has overflow checks (the dev profile) and wrap  *)
(* when it has not (the release profile).  The build is chosen once, in    *)
(* Init, and both outcomes are explored.                                   *)
(*                                                                         *)
(* Memory is the 65536-cell array, held sparsely: mem is a function whose  *)
(* domain is the set of cells that hold a non-zero byte; every other cell  *)
(* holds 0.  Read and Write are the only access paths.                     *)
(***************************************************************************)
EXTENDS Integers, Sequences, FiniteSets, TLC

VARIABLES
    pc,               \* CPU.pc  : u16
    sp,               \* CPU.sp  : u16
    a,                \* CPU.a   : u8
    x,                \* CPU.x   : u8
    y,                \* CPU.y   : u8
    ps,               \* CPU.ps  : u8
    mem,              \* Memory.data, sparse (see above)
    cycles,           \* the local `cycles` of execute / the caller's budget of write_word
    mode,             \* "idle" (no call active), "running" (inside execute), "panicked"
    overflow_checks,  \* TRUE: arithmetic overflow panics; FALSE: it wraps
    diag,             \* values formatted into the line the last step printed (<<>>: none)
    spent,            \* cycles the harness has handed to execute since the last reset
    last,             \* name of the last operation or loop arm that acted
    pre,              \* history: the machine as it was before the last step
    entry,            \* history: registers, memory and budget when execute was last entered
    arg               \* history: <<cycles, data, addr>> of the harness's last write_word call

vars == <<pc, sp, a, x, y, ps, mem, cycles, mode, overflow_checks, diag, spent, last,
          pre, entry, arg>>

-----------------------------------------------------------------------------
(* Program constants *)

MAX_MEM == 65536
U8 == 256
U16 == 65536

PS_Z == 2
PS_N == 128

LDA_IM == 169
LDA_ZP == 165
LDA_ZPX == 181
JSR_ABS == 32

RESET_PC == 65532
RESET_SP == 256

(* Bounds of the model *)

\* cycles the harness hands to execute between two resets, over all calls
MaxCycles == 8

\* bytes the harness writes with memory[addr] = val: main's program and variations
PokeSet ==
    { <<65532, JSR_ABS>>, <<65532, LDA_IM>>, <<65532, LDA_ZP>>, <<65532, LDA_ZPX>>,
      <<65533, 66>>,
      <<65534, 66>>, <<65534, LDA_IM>>, <<65534, JSR_ABS>>,
      <<16962, LDA_IM>>,
      <<16963, 132>>,
      <<66, 132>> }

-----------------------------------------------------------------------------
(* Memory *)

\* Index<u16>::index
Read(m, addr) == IF addr \in DOMAIN m THEN m[addr] ELSE 0

\* IndexMut<u16>::index_mut followed by the store
Write(m, addr, val) ==
    IF val = 0
    THEN [k \in (DOMAIN m) \ {addr} |-> m[k]]
    ELSE [k \in (DOMAIN m) \cup {addr} |-> IF k = addr THEN val ELSE m[k]]

\* Memory::initialize / Memory::default: [0; MAX_MEM]
ZeroMemory == [k \in {} |-> 0]

-----------------------------------------------------------------------------
(* The machine a primitive works on: the register file, the memory, the   *)
(* budget, and whether a panic has unwound the call.  data is the value a  *)
(* primitive returns.                                                      *)

Cur == [pc |-> pc, sp |-> sp, a |-> a, x |-> x, y |-> y, ps |-> ps,
        mem |-> mem, cycles |-> cycles, panicked |-> FALSE,
        data |-> 0, diag |-> <<>>]

\* checked or wrapping arithmetic of an unsigned type with `modulus` values
Overflows(v, modulus) == v < 0 \/ v >= modulus

set_pc(m, v) ==
    IF m.panicked THEN m
    ELSE IF Overflows(v, U16) /\ overflow_checks THEN [m EXCEPT !.panicked = TRUE]
    ELSE [m EXCEPT !.pc = v % U16]

set_sp(m, v) ==
    IF m.panicked THEN m
    ELSE IF Overflows(v, U16) /\ overflow_checks THEN [m EXCEPT !.panicked = TRUE]
    ELSE [m EXCEPT !.sp = v % U16]

set_cycles(m, v) ==
    IF m.panicked THEN m
    ELSE IF Overflows(v, U8) /\ overflow_checks THEN [m EXCEPT !.panicked = TRUE]
    ELSE [m EXCEPT !.cycles = v % U8]

\* a set_a that writes the index register as well
set_a_also_x(m, v) == IF m.panicked THEN m ELSE [m EXCEPT !.a = v, !.x = v]

set_a(m, v) == IF m.panicked THEN m ELSE [m EXCEPT !.a = v]

\* ps |= bit, for a single-bit mask
or_ps(m, bit) ==
    IF m.panicked \/ (m.ps \div bit) % 2 = 1 THEN m
    ELSE [m EXCEPT !.ps = m.ps + bit]

\* a write_word that stores the high byte one cell too far
write_word_high_byte_at_2(m, data, addr) ==
    IF m.panicked THEN m
    ELSE LET m1 == [m EXCEPT !.mem = Write(m.mem, addr, data % U8)]
             m2 == [m1 EXCEPT !.mem = Write(m1.mem, (addr + 2) % U16, data \div U8)]
         IN  set_cycles(m2, m2.cycles - 2)

\* Memory::write_word
write_word(m, data, addr) ==
    IF m.panicked THEN m
    ELSE LET m1 == [m EXCEPT !.mem = Write(m.mem, addr, data % U8)]
             m2 == IF Overflows(addr + 1, U16) /\ overflow_checks
                   THEN [m1 EXCEPT !.panicked = TRUE]
                   ELSE [m1 EXCEPT !.mem = Write(m1.mem, (addr + 1) % U16, data \div U8)]
         IN  set_cycles(m2, m2.cycles - 2)

\* CPU::fetch_byte
fetch_byte(m) ==
    IF m.panicked THEN m
    ELSE LET data == Read(m.mem, m.pc)
             m1 == set_pc(m, m.pc + 1)
             m2 == set_cycles(m1, m1.cycles - 1)
         IN  [m2 EXCEPT !.data = data]

\* CPU::fetch_word
fetch_word(m) ==
    IF m.panicked THEN m
    ELSE LET lo == Read(m.mem, m.pc)
             m1 == set_pc(m, m.pc + 1)
             hi == Read(m1.mem, m1.pc)
             m2 == set_pc(m1, m1.pc + 1)
             m3 == set_cycles(m2, m2.cycles - 2)
         IN  [m3 EXCEPT !.data = lo + U8 * hi]

\* CPU::read_byte
read_byte(m, addr) ==
    IF m.panicked THEN m
    ELSE LET data == Read(m.mem, addr)
             m1 == set_cycles(m, m.cycles - 1)
         IN  [m1 EXCEPT !.data = data]

\* a status update that assigns Z and N from the accumulator, clearing them
\* when the condition does not hold
lda_set_status_exact(m) ==
    IF m.panicked THEN m
    ELSE LET z == IF (m.ps \div PS_Z) % 2 = 1 THEN PS_Z ELSE 0
             n == IF (m.ps \div PS_N) % 2 = 1 THEN PS_N ELSE 0
             others == m.ps - z - n
         IN  [m EXCEPT !.ps = others + (IF m.a = 0 THEN PS_Z ELSE 0)
                                     + (IF (m.a \div 128) % 2 = 1 THEN PS_N ELSE 0)]

\* CPU::lda_set_status
lda_set_status(m) ==
    LET m1 == IF m.a = 0 THEN or_ps(m, PS_Z) ELSE m
    IN  IF (m1.a \div 128) % 2 = 1 THEN or_ps(m1, PS_N) ELSE m1

-----------------------------------------------------------------------------
(* The arms of the match in execute; m is the machine after the opcode     *)
(* fetch.                                                                  *)

arm_LDA_IM(m) ==
    LET f == fetch_byte(m)
    IN  lda_set_status(set_a(f, f.data))

arm_LDA_ZP(m) ==
    LET f == fetch_byte(m)
        r == read_byte(f, f.data)
    IN  lda_set_status(set_a(r, r.data))

arm_LDA_ZPX(m) ==
    LET f == fetch_byte(m)
        sum == f.data + f.x
        f1 == IF f.panicked THEN f
              ELSE IF Overflows(sum, U8) /\ overflow_checks THEN [f EXCEPT !.panicked = TRUE]
              ELSE f
        f2 == set_cycles(f1, f1.cycles - 1)
        r == read_byte(f2, sum % U8)
    IN  lda_set_status(set_a(r, r.data))

arm_JSR_ABS(m) ==
    LET w == fetch_word(m)
        sub_addr == w.data
        ret == w.pc - 1
        w1 == IF w.panicked THEN w
              ELSE IF Overflows(ret, U16) /\ overflow_checks THEN [w EXCEPT !.panicked = TRUE]
              ELSE w
        w2 == write_word(w1, ret % U16, w1.sp)
        w3 == set_sp(w2, w2.sp + 2)
        w4 == IF w3.panicked THEN w3 ELSE [w3 EXCEPT !.pc = sub_addr]
    IN  set_cycles(w4, w4.cycles - 1)

arm_unhandled(m) ==
    IF m.panicked THEN m ELSE [m EXCEPT !.diag = <<m.data>>]

IsKnown(op) == op \in {LDA_IM, LDA_ZP, LDA_ZPX, JSR_ABS}

-----------------------------------------------------------------------------
(* State *)

NoEntry == [pc |-> 0, sp |-> 0, a |-> 0, x |-> 0, y |-> 0, ps |-> 0,
            mem |-> ZeroMemory, budget |-> 0]

\* Memory::default() and CPU::default(), before any call
Init ==
    /\ pc = 0 /\ sp = 0 /\ a = 0 /\ x = 0 /\ y = 0 /\ ps = 0
    /\ mem = ZeroMemory
    /\ cycles = 0
    /\ mode = "idle"
    /\ overflow_checks \in BOOLEAN
    /\ diag = <<>>
    /\ spent = 0
    /\ last = "new"
    /\ pre = Cur
    /\ entry = NoEntry
    /\ arg = <<>>

\* the machine m0 has become m; op names what acted
Commit(m0, m, op) ==
    /\ pc' = m.pc /\ sp' = m.sp /\ a' = m.a /\ x' = m.x /\ y' = m.y /\ ps' = m.ps
    /\ mem' = m.mem
    /\ cycles' = m.cycles
    /\ mode' = IF m.panicked THEN "panicked" ELSE mode
    /\ diag' = m.diag
    /\ last' = op
    /\ pre' = m0
    /\ UNCHANGED overflow_checks

\* reset as it would be without the call of memory.initialize()
Reset_without_initialize ==
    /\ mode = "idle"
    /\ pc' = RESET_PC
    /\ sp' = RESET_SP
    /\ a' = 0 /\ x' = 0 /\ y' = 0 /\ ps' = 0
    /\ spent' = 0
    /\ diag' = <<>>
    /\ last' = "reset"
    /\ pre' = Cur
    /\ entry' = NoEntry
    /\ UNCHANGED <<mem, cycles, mode, overflow_checks, arg>>

\* CPU::reset
Reset ==
    /\ mode = "idle"
    /\ pc' = RESET_PC
    /\ sp' = RESET_SP
    /\ a' = 0 /\ x' = 0 /\ y' = 0 /\ ps' = 0
    /\ mem' = ZeroMemory
    /\ spent' = 0
    /\ diag' = <<>>
    /\ last' = "reset"
    /\ pre' = Cur
    /\ entry' = NoEntry
    /\ UNCHANGED <<cycles, mode, overflow_checks, arg>>

\* the harness populates memory after reset and before execution:
\* memory[addr] = val
Poke ==
    /\ mode = "idle"
    /\ last \in {"reset", "poke"}
    /\ \E p \in PokeSet : mem' = Write(mem, p[1], p[2])
    /\ diag' = <<>>
    /\ last' = "poke"
    /\ pre' = Cur
    /\ UNCHANGED <<pc, sp, a, x, y, ps, cycles, mode, overflow_checks, spent, entry, arg>>

\* CPU::execute is entered: let mut cycles = cycles
Execute ==
    /\ mode = "idle"
    /\ last # "new"
    /\ \E c \in 0 .. (MaxCycles - spent) :
          /\ cycles' = c
          /\ spent' = spent + c
          /\ entry' = [pc |-> pc, sp |-> sp, a |-> a, x |-> x, y |-> y, ps |-> ps,
                       mem |-> mem, budget |-> c]
    /\ mode' = "running"
    /\ diag' = <<>>
    /\ last' = "execute"
    /\ pre' = Cur
    /\ UNCHANGED <<pc, sp, a, x, y, ps, mem, overflow_checks, arg>>

\* while cycles > 0 is false: execute returns
Return ==
    /\ mode = "running"
    /\ cycles = 0
    /\ mode' = "idle"
    /\ diag' = <<>>
    /\ last' = "return"
    /\ pre' = Cur
    /\ UNCHANGED <<pc, sp, a, x, y, ps, mem, cycles, overflow_checks, spent, entry, arg>>

\* a loop that tests the budget after the body only
Fetching_do_while == mode = "running"

\* one iteration of the loop: the opcode fetch and the arm it selects
Fetching == mode = "running" /\ cycles > 0

Opcode == fetch_byte(Cur)

Step(m, op) == Commit(Cur, m, op) /\ UNCHANGED <<spent, entry, arg>>

\* the opcode fetch itself panics: no arm is selected
FetchPanic ==
    /\ Fetching
    /\ Opcode.panicked
    /\ Step(Opcode, "fetch")

LdaIm ==
    /\ Fetching
    /\ ~Opcode.panicked /\ Opcode.data = LDA_IM
    /\ Step(arm_LDA_IM(Opcode), "LDA_IM")

LdaZp ==
    /\ Fetching
    /\ ~Opcode.panicked /\ Opcode.data = LDA_ZP
    /\ Step(arm_LDA_ZP(Opcode), "LDA_ZP")

LdaZpx ==
    /\ Fetching
    /\ ~Opcode.panicked /\ Opcode.data = LDA_ZPX
    /\ Step(arm_LDA_ZPX(Opcode), "LDA_ZPX")

JsrAbs ==
    /\ Fetching
    /\ ~Opcode.panicked /\ Opcode.data = JSR_ABS
    /\ Step(arm_JSR_ABS(Opcode), "JSR_ABS")

Unhandled ==
    /\ Fetching
    /\ ~Opcode.panicked /\ ~IsKnown(Opcode.data)
    /\ Step(arm_unhandled(Opcode), "unhandled")

Next ==
    \/ Reset
    \/ Poke
    \/ Execute
    \/ Return
    \/ FetchPanic
    \/ LdaIm
    \/ LdaZp
    \/ LdaZpx
    \/ JsrAbs
    \/ Unhandled

Spec == Init /\ [][Next]_vars

-----------------------------------------------------------------------------
(* The Memory component on its own: a caller that owns a Memory and calls  *)
(* its public operations directly.                                         *)

\* the largest budget the caller passes to write_word
MaxWordBudget == 3

\* arguments the caller passes to write_word
WordAddrs == {256, 65535}
WordData == {0, 4660, 65535}
WordBudgets == 0 .. MaxWordBudget

\* bytes the caller stores with memory[addr] = val
MemPokeSet == {<<257, 9>>, <<0, 9>>}

MemInit ==
    /\ Init
    /\ last = "new"

\* Memory::initialize
MemInitialize ==
    /\ mode = "idle"
    /\ mem' = ZeroMemory
    /\ last' = "initialize"
    /\ pre' = Cur
    /\ UNCHANGED <<pc, sp, a, x, y, ps, cycles, mode, overflow_checks, diag, spent, entry, arg>>

\* memory[addr] = val
MemPoke ==
    /\ mode = "idle"
    /\ \E p \in MemPokeSet : mem' = Write(mem, p[1], p[2])
    /\ last' = "poke"
    /\ pre' = Cur
    /\ UNCHANGED <<pc, sp, a, x, y, ps, cycles, mode, overflow_checks, diag, spent, entry, arg>>

\* memory.write_word(&mut cycles, data, addr)
MemWriteWord ==
    /\ mode = "idle"
    /\ \E c \in WordBudgets, data \in WordData, addr \in WordAddrs :
          LET m0 == [Cur EXCEPT !.cycles = c]
          IN  /\ Commit(m0, write_word(m0, data, addr), "write_word")
              /\ arg' = <<c, data, addr>>
    /\ UNCHANGED <<spent, entry>>

MemNext ==
    \/ MemInitialize
    \/ MemPoke
    \/ MemWriteWord

MemSpec == MemInit /\ [][MemNext]_vars

-----------------------------------------------------------------------------
(* The CPU on its own: execute applied to a register file and a memory     *)
(* drawn from a small set of cases, as a test inside the crate would build *)
(* them.  The cases are load-zero-page,X with each index and operand, and  *)
(* a jump-to-subroutine met with the stack pointer at the top of memory.   *)

\* values of the X register and of the operand byte
XValues == {0, 1, 255}
ZValues == {66, 255}

\* zero-page cells (z + x) mod 256 for these values, each with its own content
ZeroPage == (0 :> 1) @@ (65 :> 66) @@ (66 :> 67) @@ (67 :> 68) @@ (254 :> 255) @@ (255 :> 128)

\* LDA zp,X with operand z at the entry address, index register x
ZpxCase(z, xv) ==
    [pc |-> RESET_PC, sp |-> RESET_SP, x |-> xv,
     mem |-> ZeroPage @@ (RESET_PC :> LDA_ZPX) @@ (RESET_PC + 1 :> z)]

\* the machine before the 32640th jump-to-subroutine of the run
\*   reset; memory[0xFFFC..0xFFFE] = 20 20 20; memory[0x2020..0x2022] = 20 20 20;
\*   execute(252) called 315 times, on a build without overflow checks:
\* pc = 0x2023, where the pushes have left 20 05 01, and sp = 0xFFFE.  Only
\* the cells of that instruction are kept.
StackTopCase ==
    [pc |-> 8227, sp |-> 65534, x |-> 0,
     mem |-> (8227 :> JSR_ABS) @@ (8228 :> 5) @@ (8229 :> 1)]

CpuCases == {ZpxCase(z, xv) : z \in ZValues, xv \in XValues} \cup {StackTopCase}

CpuInit ==
    /\ \E c \in CpuCases :
          /\ pc = c.pc /\ sp = c.sp /\ x = c.x /\ mem = c.mem
    /\ a = 0 /\ y = 0 /\ ps = 0
    /\ cycles = 0
    /\ mode = "idle"
    /\ overflow_checks \in BOOLEAN
    /\ diag = <<>>
    /\ spent = 0
    /\ last = "built"
    /\ pre = Cur
    /\ entry = NoEntry
    /\ arg = <<>>

CpuNext ==
    \/ Execute
    \/ Return
    \/ FetchPanic
    \/ LdaZpx
    \/ JsrAbs
    \/ Unhandled

CpuSpec == CpuInit /\ [][CpuNext]_vars

-----------------------------------------------------------------------------
\* the widths of the registers, the budget and the memory cells
TypeOK ==
    /\ pc \in 0 .. U16 - 1 /\ sp \in 0 .. U16 - 1
    /\ a \in 0 .. U8 - 1 /\ x \in 0 .. U8 - 1 /\ y \in 0 .. U8 - 1 /\ ps \in 0 .. U8 - 1
    /\ cycles \in 0 .. U8 - 1
    /\ DOMAIN mem \subseteq 0 .. MAX_MEM - 1
    /\ \A k \in DOMAIN mem : mem[k] \in 1 .. U8 - 1
    /\ mode \in {"idle", "running", "panicked"}

-----------------------------------------------------------------------------
(* Properties.  A step of the loop is named by last; pre is the machine at *)
(* the loop check before it.                                               *)

Loads == {"LDA_IM", "LDA_ZP", "LDA_ZPX"}
KnownArms == Loads \cup {"JSR_ABS"}
Arms == KnownArms \cup {"unhandled"}

Bit(v, mask) == (v \div mask) % 2 = 1

\* the opcode the last iteration read
OpAt == Read(pre.mem, pre.pc)

\* the documented cost of an instruction, opcode fetch included
DocCost(op) ==
    CASE op = LDA_IM -> 2
      [] op = LDA_ZP -> 3
      [] op = LDA_ZPX -> 4
      [] op = JSR_ABS -> 6
      [] OTHER -> 1

\* the byte at offset k of the instruction the last iteration ran
Operand(k) == Read(pre.mem, (pre.pc + k) % U16)

\* every cell but those in `except` holds what it held before the step
MemoryKeptExcept(except) ==
    \A addr \in ((DOMAIN mem) \cup (DOMAIN pre.mem)) \ except :
        Read(mem, addr) = Read(pre.mem, addr)

\* the documented effect of jump-to-subroutine on registers and memory
JsrEffect ==
    LET t == Operand(1) + U8 * Operand(2)
        s == pre.sp
        ret == (pre.pc + 2) % U16
    IN  /\ pc = t
        /\ sp = s + 2
        /\ Read(mem, s) = ret % U8
        /\ Read(mem, s + 1) = ret \div U8
        /\ a = pre.a /\ x = pre.x /\ y = pre.y /\ ps = pre.ps
        /\ MemoryKeptExcept({s, s + 1})

\* the documented effect of a load on the accumulator and the program counter
LoadEffect ==
    /\ pc = (pre.pc + 2) % U16
    /\ a = CASE last = "LDA_IM" -> Operand(1)
             [] last = "LDA_ZP" -> Read(pre.mem, Operand(1))
             [] OTHER -> Read(pre.mem, (Operand(1) + pre.x) % U8)

\* every one of the 65536 cells of m holds 0: the cells outside DOMAIN m do
\* by the representation, so it is the stored cells that are to be checked
AllCellsZero(m) ==
    /\ DOMAIN m \subseteq 0 .. MAX_MEM - 1
    /\ \A addr \in DOMAIN m : Read(m, addr) = 0

\* C1: after reset, from any prior register and memory state, pc = 0xFFFC,
\* sp = 0x0100, a = x = y = ps = 0 and every one of the 65536 cells is 0.
C1_ResetIsCanonical ==
    last = "reset" =>
        /\ pc = 65532 /\ sp = 256
        /\ a = 0 /\ x = 0 /\ y = 0 /\ ps = 0
        /\ AllCellsZero(mem)

\* a reset of a machine that had run main's program: registers and memory dirty
C1_Witness ==
    /\ last = "reset"
    /\ pre.pc # RESET_PC /\ pre.sp # RESET_SP /\ pre.a # 0 /\ pre.ps # 0
    /\ Read(pre.mem, RESET_PC) # 0 /\ Read(pre.mem, RESET_SP) # 0

\* C2: after every load-accumulator instruction, from any prior status byte,
\* Zero is set iff the loaded value is 0, Negative is set iff bit 7 of the
\* loaded value is 1, and every other status bit is as before.
C2_LoadSetsFlagsExactly ==
    last \in Loads /\ mode = "running" =>
        /\ Bit(ps, PS_Z) <=> (a = 0)
        /\ Bit(ps, PS_N) <=> Bit(a, 128)
        /\ \A b \in {1, 4, 8, 16, 32, 64} : Bit(ps, b) <=> Bit(pre.ps, b)

\* C3: each instruction, dispatched with at least its cost remaining,
\* decrements the budget by exactly its documented cost (2, 3, 4, 6).
C3_ExactCost ==
    last \in KnownArms /\ pre.cycles >= DocCost(OpAt) =>
        /\ mode = "running"
        /\ cycles = pre.cycles - DocCost(OpAt)

\* C4: jump-to-subroutine at p with target t, stack pointer s and at least 6
\* cycles remaining: afterwards pc = t, sp = s + 2, memory[s], memory[s+1]
\* hold the return address p + 2 low byte first, and a, x, y, ps and every
\* other cell are unchanged; the loop is back at its check with pc = t, so
\* the instruction that follows is the one at t.
C4_JsrEffect ==
    last = "JSR_ABS" /\ pre.cycles >= 6 =>
        /\ mode = "running"
        /\ JsrEffect

\* C5: during execute no decrement takes the 8-bit budget to a larger value.
C5_BudgetNeverWraps ==
    last \in Arms \cup {"fetch"} => cycles <= pre.cycles

\* C6: a known instruction dispatched with less than its cost remaining still
\* has its full register and memory effect, and execution stops at the next
\* loop check.
C6_RunsToCompletionThenStops ==
    last \in KnownArms /\ pre.cycles >= 1 /\ pre.cycles < DocCost(OpAt) =>
        /\ mode = "running"
        /\ IF last = "JSR_ABS" THEN JsrEffect ELSE LoadEffect
        /\ ~(cycles > 0)

\* the documented run of the program at p with stack pointer s and c cycles:
\* ok iff it is made of known instructions whose costs add up to exactly c
RECURSIVE DocRun(_, _, _, _)
DocRun(m, p, s, c) ==
    IF c = 0 THEN [ok |-> TRUE, pc |-> p, sp |-> s]
    ELSE LET op == Read(m, p)
         IN  IF ~IsKnown(op) \/ DocCost(op) > c
             THEN [ok |-> FALSE, pc |-> p, sp |-> s]
             ELSE IF op = JSR_ABS
             THEN LET t == Read(m, (p + 1) % U16) + U8 * Read(m, (p + 2) % U16)
                      ret == (p + 2) % U16
                      m1 == Write(Write(m, s, ret % U8), (s + 1) % U16, ret \div U8)
                  IN  DocRun(m1, t, (s + 2) % U16, c - 6)
             ELSE DocRun(m, (p + 2) % U16, s, c - DocCost(op))

\* C7: a program at the entry address 0xFFFC after reset, made of known
\* instructions whose documented costs add up to the budget, is run to its
\* end and execute returns with the remaining budget exactly 0, also when
\* its bytes extend to 0xFFFF.
C7_ProgramRunsToZero ==
    LET r == DocRun(entry.mem, entry.pc, entry.sp, entry.budget)
    IN  /\ mode \in {"running", "panicked"} \/ last = "return"
        /\ entry.pc = RESET_PC /\ entry.sp = RESET_SP
        /\ entry.budget > 0
        /\ r.ok
        => /\ mode # "panicked"
           /\ cycles <= entry.budget
           /\ last = "return" => cycles = 0 /\ pc = r.pc /\ sp = r.sp

\* C8: an opcode byte matching no instruction, fetched with budget >= 1:
\* pc advances by 1, 1 cycle is consumed, a, x, y, sp, ps and memory are
\* unchanged, the diagnostic names the value, and the loop goes on.
C8_UnknownOpcode ==
    last \in {"unhandled", "fetch"} /\ ~IsKnown(OpAt) /\ pre.cycles >= 1 =>
        /\ mode = "running"
        /\ pc = (pre.pc + 1) % U16
        /\ cycles = pre.cycles - 1
        /\ a = pre.a /\ x = pre.x /\ y = pre.y /\ sp = pre.sp /\ ps = pre.ps
        /\ mem = pre.mem
        /\ diag = <<OpAt>>

\* C9: execute terminates: each loop iteration that completes strictly
\* decreases the remaining budget, so the loop reaches zero.
C9_IterationDecreasesBudget ==
    last \in Arms /\ mode = "running" => cycles < pre.cycles

\* C10: after write_word(v, a) the byte at a is v mod 256 and the byte at
\* a + 1 is v div 256, so the two recombine to v, and the caller's budget is
\* charged exactly 2 cycles; for every v and every a.
C10_WriteWordRoundTrip ==
    last = "write_word" =>
        LET lo == Read(mem, arg[3])
            hi == Read(mem, (arg[3] + 1) % MAX_MEM)
        IN  /\ mode # "panicked"
            /\ lo = arg[2] % U8
            /\ hi = arg[2] \div U8
            /\ lo + U8 * hi = arg[2]
            /\ cycles = arg[1] - 2

\* C11: write_word at the top address 0xFFFF wraps silently: it completes,
\* stores the low byte at 0xFFFF and the high byte at the wrapped address
\* (0xFFFF + 1) mod 65536 = 0, and charges 2 cycles (the budget held them).
C11_WriteWordWrapsAtTop ==
    last = "write_word" /\ arg[3] = MAX_MEM - 1 /\ arg[1] >= 2 =>
        /\ mode # "panicked"
        /\ Read(mem, MAX_MEM - 1) = arg[2] % U8
        /\ Read(mem, 0) = arg[2] \div U8
        /\ cycles = arg[1] - 2

\* C12: the diagnostic for an unknown opcode reports the opcode value and
\* the address it was fetched from.
C12_DiagnosticNamesOpcodeAndAddress ==
    last = "unhandled" => diag = <<OpAt, pre.pc>>

\* C13: load-immediate sets the accumulator to the byte after the opcode,
\* load-zero-page to the cell whose address is that byte; both advance the
\* program counter by 2 past the opcode's address.
C13_LoadValueAndPc ==
    last \in {"LDA_IM", "LDA_ZP"} =>
        /\ mode = "running"
        /\ LoadEffect

LoopSteps == Arms \cup {"fetch"}

\* the arm the match selects for an opcode
ArmOf(op) ==
    CASE op = LDA_IM -> "LDA_IM"
      [] op = LDA_ZP -> "LDA_ZP"
      [] op = LDA_ZPX -> "LDA_ZPX"
      [] op = JSR_ABS -> "JSR_ABS"
      [] OTHER -> "unhandled"

StatusBits == {1, 2, 4, 8, 16, 32, 64, 128}

\* C15: between resets the status byte only grows: a bit that is set stays
\* set through every later instruction, and reset clears the byte.
C15_StatusOnlyGrows ==
    /\ last \notin {"new", "reset"} =>
           \A b \in StatusBits : Bit(pre.ps, b) => Bit(ps, b)
    /\ last = "reset" => ps = 0

\* a load of zero has followed a load of a negative value: N is still set
C15_Witness ==
    /\ last \in Loads /\ mode = "running"
    /\ a = 0
    /\ pre.ps = PS_N
    /\ ps = PS_N + PS_Z

\* C16: an opcode is fetched only while the budget is positive; execute
\* with a budget of 0 fetches nothing and returns with pc, sp, a, x, y, ps
\* and memory as they were; each fetched opcode is dispatched to the one
\* arm of its value.
C16_ZeroBudgetIsNoOp ==
    /\ last \in LoopSteps => pre.cycles > 0
    /\ last = "return" /\ entry.budget = 0 =>
           /\ pre.cycles = 0
           /\ pc = entry.pc /\ sp = entry.sp
           /\ a = entry.a /\ x = entry.x /\ y = entry.y /\ ps = entry.ps
           /\ mem = entry.mem
    /\ last \in Arms => last = ArmOf(OpAt)

\* execute(0) has returned with a known opcode waiting at pc
C16_Witness ==
    /\ last = "return" /\ entry.budget = 0
    /\ IsKnown(Read(mem, pc))

\* C17: sp never decreases, and is 0x0100 plus 2 for each jump-to-subroutine
\* completed since reset: a completed jump adds 2, every other step leaves
\* sp alone (the budget held the cost of the instruction).
C17_StackPointerOnlyGrows ==
    last \in LoopSteps /\ pre.cycles >= DocCost(OpAt) =>
        /\ sp >= pre.sp
        /\ last # "JSR_ABS" => sp = pre.sp
        /\ last = "JSR_ABS" /\ mode = "running" => sp = pre.sp + 2

\* the return-address slots pushed since execute was entered, with the slot
\* of a push that was cut short
PushedSlots ==
    LET inflight == IF mode = "panicked" /\ last = "JSR_ABS" /\ sp = pre.sp THEN 2 ELSE 0
        n == ((sp - entry.sp) % U16) + inflight
    IN  {(entry.sp + i) % U16 : i \in 0 .. n - 1}

\* C18: memory is modified during execute by jump-to-subroutine only, and
\* only at sp and sp + 1; loads and unknown opcodes leave every cell as it
\* was; during and after a run a cell differs from its value at entry only
\* if it is a pushed return-address slot.
C18_OnlyJsrWritesMemory ==
    /\ last \in Loads \cup {"unhandled", "fetch", "execute", "return"} =>
           mem = pre.mem
    /\ last = "JSR_ABS" =>
           MemoryKeptExcept({pre.sp, (pre.sp + 1) % U16})
    /\ last \in LoopSteps \cup {"return"} =>
           \A addr \in ((DOMAIN mem) \cup (DOMAIN entry.mem)) \ PushedSlots :
               Read(mem, addr) = Read(entry.mem, addr)

\* a jump-to-subroutine has stored both bytes of a return address
C18_Witness ==
    /\ last = "JSR_ABS" /\ mode = "running"
    /\ Read(mem, pre.sp) # Read(pre.mem, pre.sp)
    /\ Read(mem, pre.sp + 1) # Read(pre.mem, pre.sp + 1)

\* C19: x and y are 0 in every state reached from construction or reset by
\* execute calls, so load-zero-page,X reads the cell load-zero-page would
\* read and costs one cycle more.
C19_IndexRegistersStayZero ==
    /\ x = 0 /\ y = 0
    /\ last = "LDA_ZPX" /\ mode = "running" =>
           /\ a = Read(pre.mem, Operand(1))
           /\ (pre.cycles - cycles) % U8 = DocCost(LDA_ZP) + 1

\* load-zero-page,X has loaded a non-zero cell
C19_Witness ==
    /\ last = "LDA_ZPX" /\ mode = "running"
    /\ a = 132 /\ Operand(1) = 66

====
